---- MODULE Spec2Model ----
(***************************************************************************)
(* Konva.PolyLine (src/src/shapes/PolyLine.js): an exterior ring, interior *)
(* rings, the tension / closed / bezier flags, the memoized tension-point  *)
(* cache, and the drawing calls _sceneFunc issues on the context.          *)
(***************************************************************************)
EXTENDS Integers, Sequences, FiniteSets

VARIABLES exterior, interiors, tension, closed, bezier, cache, out

vars == <<exterior, interiors, tension, closed, bezier, cache, out>>

(***************************************************************************)
(* Bounds of the model.                                                    *)
(***************************************************************************)
MaxPoints == 4
MaxInteriors == 2

(***************************************************************************)
(* JavaScript values that reach the context.  A number is the rational     *)
(* n/d (d > 0, lowest terms); d = 0 marks the two non-numbers: undefined   *)
(* (an array read past the end) and NaN (arithmetic on undefined).         *)
(***************************************************************************)
UNDEF == [n |-> 0, d |-> 0]
NaN == [n |-> 1, d |-> 0]
I(v) == [n |-> v, d |-> 1]
IsNum(v) == v.d > 0

Abs(a) == IF a < 0 THEN -a ELSE a

RECURSIVE GCD(_, _)
GCD(a, b) == IF b = 0 THEN a ELSE GCD(b, a % b)

Rat(num, den) ==
  LET g == GCD(Abs(num), den)
  IN  [n |-> num \div g, d |-> den \div g]

Less(a, b) == a.n * b.d < b.n * a.d
LessEq(a, b) == a.n * b.d <= b.n * a.d

\* Math.min / Math.max: NaN as soon as one argument is not a number
MathMin(a, b) == IF ~IsNum(a) \/ ~IsNum(b) THEN NaN ELSE IF Less(b, a) THEN b ELSE a
MathMax(a, b) == IF ~IsNum(a) \/ ~IsNum(b) THEN NaN ELSE IF Less(a, b) THEN b ELSE a
\* a - b
Minus(a, b) == IF ~IsNum(a) \/ ~IsNum(b) THEN NaN ELSE Rat(a.n * b.d - b.n * a.d, a.d * b.d)
\* Math.round: floor(x + 1/2)
MathRound(a) == IF ~IsNum(a) THEN NaN ELSE I((2 * a.n + a.d) \div (2 * a.d))

\* p[i] of a ring (a flat array of integers), 0-based as in the source
At(p, i) == IF i >= 0 /\ i < Len(p) THEN I(p[i + 1]) ELSE UNDEF
\* tp[i] of an array of values, 0-based
AtV(tp, i) == IF i >= 0 /\ i < Len(tp) THEN tp[i + 1] ELSE UNDEF

(***************************************************************************)
(* Rings of the model: the corners of a 3 x 4 rectangle walked in order,   *)
(* so that every distance between two points is an integer (0, 3, 4 or 5)  *)
(* and Math.sqrt is exact.  Interior rings are shifted away from the       *)
(* exterior so that no interior point is an exterior point.                *)
(***************************************************************************)
Corner(c) == CASE c = 0 -> <<0, 0>> [] c = 1 -> <<3, 0>> [] c = 2 -> <<3, 4>> [] OTHER -> <<0, 4>>
Ring(s, k, off) == [j \in 1..(2 * k) |-> Corner((s + (j - 1) \div 2) % 4)[((j - 1) % 2) + 1] + off]

ExteriorRings == {Ring(0, k, 0) : k \in 0..MaxPoints} \cup {Ring(2, 3, 0)}
InteriorRings == {Ring(1, k, 10) : k \in {0, 3}}
Tensions == {0, 1, 2}

Sqrt(m) == CHOOSE r \in 0..m : r * r = m

(***************************************************************************)
(* Konva.Util._getControlPoints and Konva.Util._expandPoints               *)
(***************************************************************************)
_getControlPoints(x0, y0, x1, y1, x2, y2, t) ==
  IF \E v \in {x0, y0, x1, y1, x2, y2} : ~IsNum(v)
  THEN <<NaN, NaN, NaN, NaN>>
  ELSE LET d01 == Sqrt((x1.n - x0.n) * (x1.n - x0.n) + (y1.n - y0.n) * (y1.n - y0.n))
           d12 == Sqrt((x2.n - x1.n) * (x2.n - x1.n) + (y2.n - y1.n) * (y2.n - y1.n))
           D == d01 + d12
       IN  IF d01 = 0 \/ d12 = 0
           THEN <<x1, y1, x1, y1>>
           ELSE << Rat(x1.n * D - t * d01 * (x2.n - x0.n), D),
                   Rat(y1.n * D - t * d01 * (y2.n - y0.n), D),
                   Rat(x1.n * D + t * d12 * (x2.n - x0.n), D),
                   Rat(y1.n * D + t * d12 * (y2.n - y0.n), D) >>

RECURSIVE ExpandFrom(_, _, _)
ExpandFrom(p, t, n) ==
  IF n < Len(p) - 2
  THEN LET cp == _getControlPoints(At(p, n - 2), At(p, n - 1), At(p, n), At(p, n + 1),
                                   At(p, n + 2), At(p, n + 3), t)
       IN  <<cp[1], cp[2], At(p, n), At(p, n + 1), cp[3], cp[4]>> \o ExpandFrom(p, t, n + 2)
  ELSE <<>>

_expandPoints(p, t) == ExpandFrom(p, t, 2)

(***************************************************************************)
(* The property system: a setter stores the attribute and fires            *)
(* <attr>Change; the handler registered in ___init clears the              *)
(* tensionPoints cache.  The cache is <<>> when empty, <<tp>> when filled. *)
(***************************************************************************)
ClearEvents == {"pointsChange", "tensionChange", "closedChange", "bezierChange"}

_fireChangeEvent(attr) == IF (attr \o "Change") \in ClearEvents THEN <<>> ELSE cache

NoOut == [op |-> "none", calls |-> <<>>, marks |-> <<>>, ret |-> <<>>,
          argc |-> 0, idx |-> 0, threw |-> FALSE]

___init ==
  /\ exterior = <<>>
  /\ interiors = <<>>
  /\ tension = 0
  /\ closed = FALSE
  /\ bezier = FALSE
  /\ cache = <<>>
  /\ out = NoOut

setExterior(val) ==
  /\ exterior' = val
  /\ cache' = _fireChangeEvent("exterior")
  /\ out' = [NoOut EXCEPT !.op = "set"]
  /\ UNCHANGED <<interiors, tension, closed, bezier>>

setInteriors(val) ==
  /\ interiors' = val
  /\ cache' = _fireChangeEvent("interiors")
  /\ out' = [NoOut EXCEPT !.op = "set"]
  /\ UNCHANGED <<exterior, tension, closed, bezier>>

setTension(val) ==
  /\ tension' = val
  /\ cache' = _fireChangeEvent("tension")
  /\ out' = [NoOut EXCEPT !.op = "set"]
  /\ UNCHANGED <<exterior, interiors, closed, bezier>>

setClosed(val) ==
  /\ closed' = val
  /\ cache' = _fireChangeEvent("closed")
  /\ out' = [NoOut EXCEPT !.op = "set"]
  /\ UNCHANGED <<exterior, interiors, tension, bezier>>

setBezier(val) ==
  /\ bezier' = val
  /\ cache' = _fireChangeEvent("bezier")
  /\ out' = [NoOut EXCEPT !.op = "set"]
  /\ UNCHANGED <<exterior, interiors, tension, closed>>

(***************************************************************************)
(* Tension points                                                          *)
(***************************************************************************)
_getTensionPointsClosed ==
  LET p == exterior
      len == Len(p)
      firstControlPoints == _getControlPoints(At(p, len - 2), At(p, len - 1), At(p, 0),
                                              At(p, 1), At(p, 2), At(p, 3), tension)
      lastControlPoints == _getControlPoints(At(p, len - 4), At(p, len - 3), At(p, len - 2),
                                             At(p, len - 1), At(p, 0), At(p, 1), tension)
      middle == _expandPoints(p, tension)
  IN  <<firstControlPoints[3], firstControlPoints[4]>> \o middle \o
      << lastControlPoints[1], lastControlPoints[2], At(p, len - 2), At(p, len - 1),
         lastControlPoints[3], lastControlPoints[4],
         firstControlPoints[1], firstControlPoints[2], At(p, 0), At(p, 1) >>

_getTensionPoints ==
  IF closed THEN _getTensionPointsClosed ELSE _expandPoints(exterior, tension)

\* this._getCache('tensionPoints', this._getTensionPoints): the cache after the call
_getCache == IF cache = <<>> THEN <<_getTensionPoints>> ELSE cache

getTensionPoints ==
  /\ cache' = _getCache
  /\ out' = [NoOut EXCEPT !.op = "getTensionPoints", !.ret = _getCache[1]]
  /\ UNCHANGED <<exterior, interiors, tension, closed, bezier>>

(***************************************************************************)
(* Rendering                                                               *)
(***************************************************************************)
Call(op, args) == [op |-> op, args |-> args]

RECURSIVE TensionLoop(_, _)
TensionLoop(tp, n) ==
  IF n < Len(tp) - 2
  THEN <<Call("bezierCurveTo", <<AtV(tp, n), AtV(tp, n + 1), AtV(tp, n + 2),
                                 AtV(tp, n + 3), AtV(tp, n + 4), AtV(tp, n + 5)>>)>>
       \o TensionLoop(tp, n + 6)
  ELSE <<>>

RECURSIVE BezierLoop(_, _)
BezierLoop(points, n) ==
  IF n < Len(points)
  THEN <<Call("bezierCurveTo", <<At(points, n), At(points, n + 1), At(points, n + 2),
                                 At(points, n + 3), At(points, n + 4), At(points, n + 5)>>)>>
       \o BezierLoop(points, n + 6)
  ELSE <<>>

RECURSIVE LineLoop(_, _)
LineLoop(points, n) ==
  IF n < Len(points)
  THEN <<Call("lineTo", <<At(points, n), At(points, n + 1)>>)>> \o LineLoop(points, n + 2)
  ELSE <<>>

\* variant: length >= 4 in place of length > 4
UsesTensionFromTwoPoints(points) == tension # 0 /\ Len(points) >= 4

\* the tension branch of _renderLine is taken for this ring
UsesTension(points) == tension # 0 /\ Len(points) > 4

\* tp is what this.getTensionPoints() returns when the tension branch asks for it
_renderLine(points, tp) ==
  LET length == Len(points)
      len == Len(tp)
  IN  IF length = 0 THEN <<>>
      ELSE <<Call("moveTo", <<At(points, 0), At(points, 1)>>)>> \o
           ( IF UsesTension(points)
             THEN (IF ~closed
                   THEN <<Call("quadraticCurveTo",
                               <<AtV(tp, 0), AtV(tp, 1), AtV(tp, 2), AtV(tp, 3)>>)>>
                   ELSE <<>>)
                  \o TensionLoop(tp, IF closed THEN 0 ELSE 4)
                  \o (IF ~closed
                      THEN <<Call("quadraticCurveTo",
                                  <<AtV(tp, len - 2), AtV(tp, len - 1),
                                    At(points, length - 2), At(points, length - 1)>>)>>
                      ELSE <<>>)
             ELSE IF bezier THEN BezierLoop(points, 2)
             ELSE LineLoop(points, 2) )

\* variant: the lineTo runs out to the exterior's last point
CutCallsToExterior(ring) ==
  << Call("lineTo", <<At(exterior, Len(exterior) - 2), At(exterior, Len(exterior) - 1)>>),
     Call("moveTo", <<At(exterior, Len(exterior) - 2), At(exterior, Len(exterior) - 1)>>) >>

\* the two calls that follow the _renderLine of an interior ring
CutCalls(ring) ==
  << Call("lineTo", <<At(ring, 0), At(ring, 1)>>),
     Call("moveTo", <<At(exterior, Len(exterior) - 2), At(exterior, Len(exterior) - 1)>>) >>

\* the loop over the interior rings: acc.calls are the calls so far, acc.marks
\* the number of calls issued when each _renderLine returned
RECURSIVE InteriorLoop(_, _, _)
InteriorLoop(i, acc, tp) ==
  IF i > Len(interiors) THEN acc
  ELSE LET ring == interiors[i]
           c == acc.calls \o _renderLine(ring, tp)
       IN  InteriorLoop(i + 1,
                        [calls |-> c \o CutCalls(ring), marks |-> Append(acc.marks, Len(c))],
                        tp)

\* variant: closePath whether or not there are interior rings
SceneTailAlwaysClosePath ==
  IF closed
  THEN <<Call("closePath", <<>>), Call("fillStrokeShape", <<>>)>>
  ELSE <<Call("strokeShape", <<>>)>>

SceneTail ==
  IF closed
  THEN (IF Len(interiors) > 0
        THEN <<Call("lineTo", <<At(exterior, 0), At(exterior, 1)>>)>>
        ELSE <<Call("closePath", <<>>)>>)
       \o <<Call("fillStrokeShape", <<>>)>>
  ELSE <<Call("strokeShape", <<>>)>>

_sceneFunc ==
  LET tp == _getCache[1]
      c0 == <<Call("beginPath", <<>>)>> \o _renderLine(exterior, tp)
      body == InteriorLoop(1, [calls |-> c0, marks |-> <<Len(c0)>>], tp)
      asked == UsesTension(exterior) \/ \E i \in 1..Len(interiors) : UsesTension(interiors[i])
  IN  /\ cache' = IF asked THEN _getCache ELSE cache
      /\ out' = [NoOut EXCEPT !.op = "render", !.calls = body.calls \o SceneTail,
                              !.marks = body.marks]
      /\ UNCHANGED <<exterior, interiors, tension, closed, bezier>>

(***************************************************************************)
(* interior(...): args is the argument list of the call                    *)
(***************************************************************************)
\* variant: every call with two or more arguments writes
interiorWritesOnExtraArgs(args) ==
  IF Len(args) = 1
  THEN /\ out' = [NoOut EXCEPT !.op = "interior", !.argc = 1, !.idx = args[1],
                               !.ret = IF args[1] < Len(interiors)
                                       THEN <<interiors[args[1] + 1]>> ELSE <<>>]
       /\ UNCHANGED <<exterior, interiors, tension, closed, bezier, cache>>
  ELSE IF Len(args) >= 2
  THEN /\ interiors' = IF args[1] < Len(interiors)
                       THEN [interiors EXCEPT ![args[1] + 1] = args[2]]
                       ELSE Append(interiors, args[2])
       /\ cache' = _fireChangeEvent("interiors")
       /\ out' = [NoOut EXCEPT !.op = "interior", !.argc = Len(args), !.idx = args[1]]
       /\ UNCHANGED <<exterior, tension, closed, bezier>>
  ELSE /\ out' = [NoOut EXCEPT !.op = "interior", !.argc = Len(args), !.threw = TRUE]
       /\ UNCHANGED <<exterior, interiors, tension, closed, bezier, cache>>

interior(args) ==
  IF Len(args) = 1
  THEN /\ out' = [NoOut EXCEPT !.op = "interior", !.argc = 1, !.idx = args[1],
                               !.ret = IF args[1] < Len(interiors)
                                       THEN <<interiors[args[1] + 1]>> ELSE <<>>]
       /\ UNCHANGED <<exterior, interiors, tension, closed, bezier, cache>>
  ELSE IF Len(args) = 2
  THEN /\ interiors' = IF args[1] < Len(interiors)
                       THEN [interiors EXCEPT ![args[1] + 1] = args[2]]
                       ELSE Append(interiors, args[2])
       /\ cache' = _fireChangeEvent("interiors")
       /\ out' = [NoOut EXCEPT !.op = "interior", !.argc = 2, !.idx = args[1]]
       /\ UNCHANGED <<exterior, tension, closed, bezier>>
  ELSE /\ out' = [NoOut EXCEPT !.op = "interior", !.argc = Len(args), !.threw = TRUE]
       /\ UNCHANGED <<exterior, interiors, tension, closed, bezier, cache>>

(***************************************************************************)
(* getSelfRect                                                             *)
(***************************************************************************)
RECURSIVE ScanRect(_, _, _)
ScanRect(points, i, acc) ==
  IF 2 * i < Len(points)
  THEN LET x == AtV(points, i * 2)
           y == AtV(points, i * 2 + 1)
       IN  ScanRect(points, i + 1,
                    [minX |-> MathMin(acc.minX, x), maxX |-> MathMax(acc.maxX, x),
                     minY |-> MathMin(acc.minY, y), maxY |-> MathMax(acc.maxY, y)])
  ELSE acc

SelfRect ==
  LET points == IF tension # 0 THEN _getTensionPoints
                ELSE [j \in 1..Len(exterior) |-> I(exterior[j])]
      m == ScanRect(points, 0, [minX |-> AtV(points, 0), maxX |-> AtV(points, 0),
                                minY |-> AtV(points, 1), maxY |-> AtV(points, 1)])
  IN  [x |-> MathRound(m.minX), y |-> MathRound(m.minY),
       width |-> MathRound(Minus(m.maxX, m.minX)),
       height |-> MathRound(Minus(m.maxY, m.minY))]

getSelfRect ==
  /\ out' = [NoOut EXCEPT !.op = "getSelfRect", !.ret = SelfRect]
  /\ UNCHANGED <<exterior, interiors, tension, closed, bezier, cache>>

(***************************************************************************)
(* Specification                                                           *)
(***************************************************************************)
InteriorLists == UNION {[1..k -> InteriorRings] : k \in 0..MaxInteriors}

\* argument lists of interior(): none, (i), (i, ring), (i, ring, extra); a write
\* targets an existing slot or the one right after the last
InteriorArgs ==
  {<<>>} \cup {<<i>> : i \in 0..MaxInteriors}
         \cup {<<i, r>> : i \in {j \in 0..(MaxInteriors - 1) : j <= Len(interiors)},
                          r \in InteriorRings}
         \cup {<<0, r, 0>> : r \in InteriorRings}

Init == ___init

Next ==
  \/ \E val \in ExteriorRings : setExterior(val)
  \/ \E val \in InteriorLists : setInteriors(val)
  \/ \E val \in Tensions : setTension(val)
  \/ \E val \in BOOLEAN : setClosed(val)
  \/ \E val \in BOOLEAN : setBezier(val)
  \/ getTensionPoints
  \/ _sceneFunc
  \/ \E args \in InteriorArgs : interior(args)
  \/ getSelfRect

Spec == Init /\ [][Next]_vars

(***************************************************************************)
(* Reading the calls of a render.  out holds the calls of the last         *)
(* _sceneFunc as long as no other operation has run since, so the          *)
(* attributes of the state are those the render read.                      *)
(***************************************************************************)
Rendered == out.op = "render"
NPoints(ring) == Len(ring) \div 2
Point(ring, k) == <<At(ring, 2 * k - 2), At(ring, 2 * k - 1)>>
PointSet(ring) == {Point(ring, k) : k \in 1..NPoints(ring)}

\* the calls _renderLine issued for the exterior, and for interior ring i
ExteriorCalls == SubSeq(out.calls, 2, out.marks[1])
InteriorCalls(i) ==
  SubSeq(out.calls, out.marks[i] + (IF i = 1 THEN 1 ELSE 3), out.marks[i + 1])

CountOp(calls, op) == Cardinality({j \in 1..Len(calls) : calls[j].op = op})
CurveOps == {"quadraticCurveTo", "bezierCurveTo"}
PathOps == {"moveTo", "lineTo", "quadraticCurveTo", "bezierCurveTo"}
TerminalOps == {"fillStrokeShape", "strokeShape"}
\* the endpoint of a call: its last two arguments
EndPoint(call) == <<call.args[Len(call.args) - 1], call.args[Len(call.args)]>>
HasUndefined(call) == \E a \in 1..Len(call.args) : call.args[a] = UNDEF

(***************************************************************************)
(* C1: after any sequence of property changes, renders and                 *)
(* getTensionPoints calls, the cached getTensionPoints() returns what a    *)
(* fresh _getTensionPoints() computes from the current exterior, tension   *)
(* and closed; a filled cache is never one of an earlier exterior.         *)
(***************************************************************************)
C1_CachedEqualsFresh ==
  /\ out.op = "getTensionPoints" => out.ret = _getTensionPoints
  /\ cache # <<>> => cache[1] = _getTensionPoints

(***************************************************************************)
(* C2: with tension = 0 and bezier = true, an exterior of N >= 1 points is *)
(* emitted as moveTo(first point) and exactly floor((N-1)/3)               *)
(* bezierCurveTo, the k-th taking points 3k-1, 3k, 3k+1 of the ring, and   *)
(* no undefined coordinate is passed.                                      *)
(***************************************************************************)
C2_BezierGroupsOfThree ==
  (Rendered /\ tension = 0 /\ bezier /\ NPoints(exterior) >= 1) =>
    LET N == NPoints(exterior)
        G == (N - 1) \div 3
    IN  /\ Len(ExteriorCalls) = 1 + G
        /\ ExteriorCalls[1] = Call("moveTo", Point(exterior, 1))
        /\ \A k \in 1..G :
             ExteriorCalls[1 + k] =
               Call("bezierCurveTo", Point(exterior, 3 * k - 1) \o Point(exterior, 3 * k)
                                     \o Point(exterior, 3 * k + 1))
        /\ \A j \in 1..Len(ExteriorCalls) : ~HasUndefined(ExteriorCalls[j])

(***************************************************************************)
(* C3 as claimed: after each interior ring the lineTo runs to the          *)
(* exterior's last point, followed by a moveTo to the exterior's last      *)
(* point.                                                                  *)
(***************************************************************************)
C3_CutLineToExteriorLast ==
  Rendered =>
    \A i \in 1..Len(interiors) :
      /\ out.calls[out.marks[i + 1] + 1] = Call("lineTo", Point(exterior, NPoints(exterior)))
      /\ out.calls[out.marks[i + 1] + 2] = Call("moveTo", Point(exterior, NPoints(exterior)))

\* what _renderLine issues for a ring in straight mode: its points in order
StraightCalls(ring) ==
  [k \in 1..NPoints(ring) |-> Call(IF k = 1 THEN "moveTo" ELSE "lineTo", Point(ring, k))]

\* the calls issued for a ring start at its first point, and are its points in
\* order when neither tension nor bezier applies
EmitsRing(calls, ring) ==
  /\ (ring = <<>>) <=> (calls = <<>>)
  /\ ring # <<>> => calls[1] = Call("moveTo", Point(ring, 1))
  /\ \A j \in 2..Len(calls) : calls[j].op \in PathOps \ {"moveTo"}
  /\ (tension = 0 /\ ~bezier) => calls = StraightCalls(ring)

(***************************************************************************)
(* C3 amended: render issues beginPath, the exterior ring through          *)
(* _renderLine, and then for every interior ring, in insertion order, the  *)
(* ring through _renderLine, a lineTo to that interior ring's own first    *)
(* point (interiors[i][0], interiors[i][1]; undefined for an empty ring)   *)
(* and a moveTo to the exterior's last point.                              *)
(***************************************************************************)
C3_CutLineToInteriorFirst ==
  Rendered =>
    /\ Len(out.marks) = 1 + Len(interiors)
    /\ out.calls[1] = Call("beginPath", <<>>)
    /\ EmitsRing(ExteriorCalls, exterior)
    /\ \A i \in 1..Len(interiors) :
         /\ EmitsRing(InteriorCalls(i), interiors[i])
         /\ out.calls[out.marks[i + 1] + 1] = Call("lineTo", <<At(interiors[i], 0), At(interiors[i], 1)>>)
         /\ out.calls[out.marks[i + 1] + 2] = Call("moveTo", Point(exterior, NPoints(exterior)))
    /\ Len(out.calls) >= out.marks[Len(out.marks)] + (IF interiors = <<>> THEN 0 ELSE 2) + 1

C3_Witness ==
  /\ Rendered
  /\ Len(interiors) = 2
  /\ interiors[1] # <<>>
  /\ interiors[2] = <<>>
  /\ NPoints(exterior) >= 3

(***************************************************************************)
(* C4: with tension # 0, no interiors and an exterior of N >= 3 points,    *)
(* render emits moveTo(first point) and then, open: a quadraticCurveTo,    *)
(* N-3 bezierCurveTo and a quadraticCurveTo ending at the last point;      *)
(* closed: N bezierCurveTo ending at points 2..N and then the first point. *)
(***************************************************************************)
C4_TensionPrimitives ==
  (Rendered /\ tension # 0 /\ interiors = <<>> /\ NPoints(exterior) >= 3) =>
    LET N == NPoints(exterior)
        c == ExteriorCalls
    IN  /\ c[1] = Call("moveTo", Point(exterior, 1))
        /\ IF closed
           THEN /\ Len(c) = 1 + N
                /\ \A k \in 1..N :
                     /\ c[1 + k].op = "bezierCurveTo"
                     /\ EndPoint(c[1 + k]) = Point(exterior, IF k = N THEN 1 ELSE k + 1)
           ELSE /\ Len(c) = 1 + (N - 1)
                /\ c[2].op = "quadraticCurveTo"
                /\ \A k \in 3..(N - 1) : c[k].op = "bezierCurveTo"
                /\ c[N].op = "quadraticCurveTo"
                /\ EndPoint(c[N]) = Point(exterior, N)

\* every ring of exactly 2 points was emitted as moveTo(first), lineTo(second)
TwoPointRingsStraight ==
  /\ NPoints(exterior) = 2 => ExteriorCalls = StraightCalls(exterior)
  /\ \A i \in 1..Len(interiors) :
       NPoints(interiors[i]) = 2 => InteriorCalls(i) = StraightCalls(interiors[i])

StraightLineTos(ring) == IF ring = <<>> THEN 0 ELSE NPoints(ring) - 1
InteriorLineTos[i \in 0..Len(interiors)] ==
  IF i = 0 THEN 0 ELSE InteriorLineTos[i - 1] + StraightLineTos(interiors[i]) + 1

(***************************************************************************)
(* C6: every render ends with exactly one terminal operation, after all    *)
(* path primitives.  closed: fillStrokeShape, preceded by closePath right  *)
(* after the exterior when there is no interior ring, or by a lineTo to    *)
(* (exterior[0], exterior[1]) right after the last interior ring's moveTo  *)
(* (and no closePath) when there is one.  Not closed: strokeShape right    *)
(* after the rings, with no closePath, no extra lineTo and no fill.        *)
(***************************************************************************)
C6_TerminalOperation ==
  Rendered =>
    LET c == out.calls
        n == Len(c)
        \* the number of calls when the loop over the interior rings is over
        body == out.marks[Len(out.marks)] + (IF interiors = <<>> THEN 0 ELSE 2)
    IN  /\ \A j \in 1..n : c[j].op \in TerminalOps <=> j = n
        /\ IF closed
           THEN /\ c[n] = Call("fillStrokeShape", <<>>)
                /\ n = body + 2
                /\ IF interiors = <<>>
                   THEN c[n - 1] = Call("closePath", <<>>)
                   ELSE /\ c[n - 1] = Call("lineTo", <<At(exterior, 0), At(exterior, 1)>>)
                        /\ c[n - 2].op = "moveTo"
                /\ CountOp(c, "closePath") = (IF interiors = <<>> THEN 1 ELSE 0)
           ELSE /\ c[n] = Call("strokeShape", <<>>)
                /\ n = body + 1
                /\ CountOp(c, "closePath") = 0
                /\ CountOp(c, "fillStrokeShape") = 0
        /\ (tension = 0 /\ ~bezier) =>
             CountOp(c, "lineTo") =
               StraightLineTos(exterior) + InteriorLineTos[Len(interiors)]
               + (IF closed /\ interiors # <<>> THEN 1 ELSE 0)

C6_Witness ==
  /\ Rendered
  /\ closed
  /\ interiors # <<>>
  /\ exterior # <<>>

(***************************************************************************)
(* C7: interior() with an argument count other than 1 or 2 throws and      *)
(* leaves the interiors, every ring and the cache unchanged; with 1        *)
(* argument it returns the ring at that index and changes nothing; with 2  *)
(* arguments it replaces only the ring at that index.                      *)
(***************************************************************************)
C7_InteriorAccessor ==
  [][ out'.op = "interior" =>
        IF out'.argc = 1
        THEN /\ ~out'.threw
             /\ out'.idx < Len(interiors) => out'.ret = <<interiors[out'.idx + 1]>>
             /\ UNCHANGED <<exterior, interiors, tension, closed, bezier, cache>>
        ELSE IF out'.argc = 2
        THEN /\ ~out'.threw
             /\ DOMAIN interiors' = DOMAIN interiors \cup {out'.idx + 1}
             /\ \A j \in DOMAIN interiors : j # out'.idx + 1 => interiors'[j] = interiors[j]
             /\ UNCHANGED <<exterior, tension, closed, bezier>>
        ELSE /\ out'.threw
             /\ UNCHANGED <<exterior, interiors, tension, closed, bezier, cache>>
    ]_vars

C7_Witness ==
  /\ out.op = "interior"
  /\ out.argc = 3
  /\ out.threw
  /\ Len(interiors) = 2
  /\ cache # <<>>

(***************************************************************************)
(* C8: with an empty exterior, whatever the interiors, tension, closed and *)
(* bezier, render emits no moveTo, lineTo, quadraticCurveTo or             *)
(* bezierCurveTo and passes no undefined coordinate.                       *)
(***************************************************************************)
C8_EmptyExteriorNoOp ==
  (Rendered /\ exterior = <<>>) =>
    \A j \in 1..Len(out.calls) :
      /\ out.calls[j].op \notin PathOps
      /\ ~HasUndefined(out.calls[j])

(***************************************************************************)
(* C9: for a non-empty exterior, the box of getSelfRect has four defined   *)
(* numbers and contains every point of the exterior ring.                  *)
(***************************************************************************)
C9_RectBoundsExterior ==
  (out.op = "getSelfRect" /\ exterior # <<>>) =>
    LET r == out.ret
    IN  /\ IsNum(r.x) /\ IsNum(r.y) /\ IsNum(r.width) /\ IsNum(r.height)
        /\ \A k \in 1..NPoints(exterior) :
             LET px == Point(exterior, k)[1]
                 py == Point(exterior, k)[2]
             IN  /\ LessEq(r.x, px) /\ LessEq(px, I(r.x.n + r.width.n))
                 /\ LessEq(r.y, py) /\ LessEq(py, I(r.y.n + r.height.n))

(***************************************************************************)
(* C10: with tension # 0, the curves emitted for an interior ring of       *)
(* M >= 3 points are those of that ring: every curve endpoint is a point   *)
(* of the interior ring, and a closed ring gets exactly M bezierCurveTo.   *)
(***************************************************************************)
C10_InteriorCurvesOfInterior ==
  (Rendered /\ tension # 0) =>
    \A i \in 1..Len(interiors) :
      NPoints(interiors[i]) >= 3 =>
        LET c == InteriorCalls(i)
        IN  /\ \A j \in 1..Len(c) :
                 c[j].op \in CurveOps => EndPoint(c[j]) \in PointSet(interiors[i])
            /\ closed => CountOp(c, "bezierCurveTo") = NPoints(interiors[i])

====
